---- MODULE Spec2Model ----
(***************************************************************************)
(* A model of build_calendars.py: the scalar normalizers, the RFC 5545     *)
(* line folding, the text escaping, the per-group renderer                 *)
(* build_ics_for_group and the driver main.                                *)
(*                                                                         *)
(* Python text (str) is modelled as a sequence of Unicode code points,     *)
(* bytes as a sequence of octets 0..255.  Str("...") writes a printable    *)
(* ASCII literal as its code points.                                       *)
(***************************************************************************)
EXTENDS Integers, Sequences, FiniteSets, TLC

VARIABLES
    sheet,      \* the published table behind CSV_URL: its columns and rows
    pc,         \* main: position in the function body
    csv_url,    \* main: the CSV_URL environment variable (set or not)
    columns,    \* main: df.columns, the set of column names of the table
    df,         \* main: the rows of the table, in order
    categories, \* main: the sorted categories still to be written by the loop
    built,      \* main: the list of (cat, fname, count) appended by the loop
    files,      \* the output directory: file name -> content
    clock,      \* seconds elapsed on the wall clock since the run started
    line,       \* fold_ical_line: the argument
    b,          \* fold_ical_line: the bytes still to be split
    out,        \* fold_ical_line: chunks and continuation markers
    merged,     \* fold_ical_line: the returned list
    fpc,        \* fold_ical_line: position in the function body
    text,       \* ical_escape: the argument
    escaped,    \* ical_escape: the returned text
    unescaped,  \* the text a reader recovers from the escaped text
    epc         \* ical_escape: position

mainVars == <<sheet, pc, csv_url, columns, df, categories, built, files, clock>>
foldVars == <<line, b, out, merged, fpc>>
escVars  == <<text, escaped, unescaped, epc>>
vars     == <<sheet, pc, csv_url, columns, df, categories, built, files, clock,
              line, b, out, merged, fpc, text, escaped, unescaped, epc>>

----------------------------------------------------------------------------
(* Text literals *)

\* Printable ASCII in runs of consecutive code points: each run with the code
\* point of its first character.
AsciiRuns == <<
    [base |-> 32, chars |-> " !"],
    [base |-> 35, chars |-> "#$%&'()*+,-./0123456789:;<=>?@ABCDEFGHIJKLMNOPQRSTUVWXYZ["],
    [base |-> 93, chars |-> "]^_"],
    [base |-> 97, chars |-> "abcdefghijklmnopqrstuvwxyz{|}~"] >>

Ord(c) ==
    LET r == CHOOSE k \in 1..Len(AsciiRuns) :
                 \E i \in 1..Len(AsciiRuns[k].chars) :
                     SubSeq(AsciiRuns[k].chars, i, i) = c
        i == CHOOSE i \in 1..Len(AsciiRuns[r].chars) :
                 SubSeq(AsciiRuns[r].chars, i, i) = c
    IN AsciiRuns[r].base + i - 1

Str(s) == [i \in 1..Len(s) |-> Ord(SubSeq(s, i, i))]

\* The text literals of the program.
K_nan == Str("nan")
K_None == Str("None")
K_general == Str("general")
K_T == Str("T")
K_00Z == Str("00Z")
K_true == Str("true")
K_yes == Str("yes")
K_y == Str("y")
K_1 == Str("1")
K_transparent == Str("transparent")
K_free == Str("free")
K_UID_DOMAIN == Str("@github-pages")
K_BEGIN_VCALENDAR == Str("BEGIN:VCALENDAR")
K_PRODID == Str("PRODID:-//Dynamic Calendars//GitHub Pages//EN")
K_VERSION_2_0 == Str("VERSION:2.0")
K_CALSCALE_GREGORIAN == Str("CALSCALE:GREGORIAN")
K_METHOD_PUBLISH == Str("METHOD:PUBLISH")
K_X_WR_CALNAME == Str("X-WR-CALNAME:")
K_TTL == Str("X-PUBLISHED-TTL:PT12H")
K_DTSTART_VALUE_DATE == Str("DTSTART;VALUE=DATE:")
K_DTEND_VALUE_DATE == Str("DTEND;VALUE=DATE:")
K_MIDNIGHT == Str("00:00")
K_DTSTART == Str("DTSTART:")
K_DTEND == Str("DTEND:")
K_BEGIN_VEVENT == Str("BEGIN:VEVENT")
K_UID == Str("UID:")
K_DTSTAMP == Str("DTSTAMP:")
K_SUMMARY == Str("SUMMARY:")
K_TRANSP == Str("TRANSP:")
K_TRANSPARENT == Str("TRANSPARENT")
K_OPAQUE == Str("OPAQUE")
K_LOCATION == Str("LOCATION:")
K_DESCRIPTION == Str("DESCRIPTION:")
K_URL == Str("URL:")
K_CATEGORIES == Str("CATEGORIES:")
K_END_VEVENT == Str("END:VEVENT")
K_END_VCALENDAR == Str("END:VCALENDAR")
K_CALENDAR_PREFIX == Str("calendar-")
K_ICS == Str(".ics")
K_RUN_START == Str("20260101T0000")
K_Z == Str("Z")
K_ALL_LABEL == Str("All (combined)")

NL == 10
CR == 13
SPACE == 32
BACKSLASH == 92
COMMA == 44
SEMICOLON == 59
LOWER_N == 110

\* The concatenation of the texts of ss ("".join(ss)), by halves.
RECURSIVE Flatten(_)
Flatten(ss) ==
    IF ss = <<>> THEN <<>>
    ELSE IF Len(ss) = 1 THEN ss[1]
    ELSE LET h == Len(ss) \div 2 IN
         Flatten(SubSeq(ss, 1, h)) \o Flatten(SubSeq(ss, h + 1, Len(ss)))

----------------------------------------------------------------------------
(* str.encode("utf-8") and bytes.decode("utf-8") *)

EncodeCp(c) ==
    IF c < 128 THEN <<c>>
    ELSE IF c < 2048 THEN <<192 + (c \div 64), 128 + (c % 64)>>
    ELSE IF c < 65536 THEN
        <<224 + (c \div 4096), 128 + ((c \div 64) % 64), 128 + (c % 64)>>
    ELSE <<240 + (c \div 262144), 128 + ((c \div 4096) % 64),
           128 + ((c \div 64) % 64), 128 + (c % 64)>>

Encode(s) == Flatten([i \in 1..Len(s) |-> EncodeCp(s[i])])

\* (x & 0xC0) == 0x80: x is a continuation octet of a multi-byte sequence
IsContinuation(x) == (x \div 64) = 2

\* The number of octets of the sequence that lead octet x starts; 0 for an
\* octet that starts none.
SeqLen(x) ==
    IF x < 128 THEN 1
    ELSE IF x \div 32 = 6 THEN 2
    ELSE IF x \div 16 = 14 THEN 3
    ELSE IF x \div 8 = 30 THEN 4
    ELSE 0

\* The code point that stands for UnicodeDecodeError in a decoded text.
DecodeError == 0 - 1

DecodeSeq(bs) ==
    LET n == Len(bs) IN
    IF n = 1 THEN bs[1]
    ELSE IF n = 2 THEN (bs[1] % 32) * 64 + (bs[2] % 64)
    ELSE IF n = 3 THEN (bs[1] % 16) * 4096 + (bs[2] % 64) * 64 + (bs[3] % 64)
    ELSE (bs[1] % 8) * 262144 + (bs[2] % 64) * 4096 + (bs[3] % 64) * 64 + (bs[4] % 64)

\* bytes.decode("utf-8"): every octet that is not a continuation octet must
\* start a complete sequence, and the sequences must tile the bytes.
WellFormed(bs) ==
    LET n == Len(bs) IN
    /\ n > 0 => ~IsContinuation(bs[1])
    /\ \A i \in 1..n : ~IsContinuation(bs[i]) =>
          LET k == SeqLen(bs[i]) IN
          /\ k # 0
          /\ i + k - 1 <= n
          /\ \A j \in (i + 1)..(i + k - 1) : IsContinuation(bs[j])
          /\ i + k <= n => ~IsContinuation(bs[i + k])

Decode(bs) ==
    IF ~WellFormed(bs) THEN <<DecodeError>>
    ELSE Flatten([i \in 1..Len(bs) |->
            IF IsContinuation(bs[i]) THEN <<>>
            ELSE <<DecodeSeq(SubSeq(bs, i, i + SeqLen(bs[i]) - 1))>>])

----------------------------------------------------------------------------
(* ical_escape *)

\* str.replace(old, new) for a one-character old
Replace(s, old, new) ==
    Flatten([i \in 1..Len(s) |-> IF s[i] = old THEN new ELSE <<s[i]>>])

ical_escape_backslash_last(s) ==
    Replace(Replace(Replace(Replace(s,
        COMMA, <<BACKSLASH, COMMA>>),
        SEMICOLON, <<BACKSLASH, SEMICOLON>>),
        NL, <<BACKSLASH, LOWER_N>>),
        BACKSLASH, <<BACKSLASH, BACKSLASH>>)

ical_escape(s) ==
    Replace(Replace(Replace(Replace(s,
        BACKSLASH, <<BACKSLASH, BACKSLASH>>),
        COMMA, <<BACKSLASH, COMMA>>),
        SEMICOLON, <<BACKSLASH, SEMICOLON>>),
        NL, <<BACKSLASH, LOWER_N>>)

\* The inverse operation of the wire format's text escaping: a backslash
\* followed by n stands for a newline, a backslash followed by any other
\* character stands for that character.
RECURSIVE Unescape(_)
Unescape(s) ==
    IF s = <<>> THEN <<>>
    ELSE IF Head(s) = BACKSLASH /\ Len(s) >= 2
         THEN <<(IF s[2] = LOWER_N THEN NL ELSE s[2])>> \o Unescape(SubSeq(s, 3, Len(s)))
         ELSE <<Head(s)>> \o Unescape(Tail(s))

----------------------------------------------------------------------------
(* fold_ical_line *)

Limit == 75

\* while cut > 0 and (b[cut] & 0xC0) == 0x80: cut -= 1
\* (Python's b[cut] is the octet at position cut + 1 here)
RECURSIVE BackOff(_, _)
BackOff(bs, cut) ==
    IF cut > 0 /\ IsContinuation(bs[cut + 1]) THEN BackOff(bs, cut - 1) ELSE cut

CutNoBackOff(bs, limit) == limit

Cut(bs, limit) == BackOff(bs, limit)

\* The second loop: a " " marker followed by a chunk becomes " " + chunk.
RECURSIVE Merge(_)
Merge(o) ==
    IF o = <<>> THEN <<>>
    ELSE IF Head(o) = <<SPACE>> /\ Len(o) >= 2
         THEN <<(<<SPACE>> \o o[2])>> \o Merge(SubSeq(o, 3, Len(o)))
         ELSE <<Head(o)>> \o Merge(Tail(o))

\* The first loop and the trailing "if b", from the bytes bs on.
RECURSIVE SplitAll(_, _)
SplitAll(bs, limit) ==
    IF Len(bs) > limit
    THEN LET cut == Cut(bs, limit) IN
         <<Decode(SubSeq(bs, 1, cut)), <<SPACE>>>>
             \o SplitAll(SubSeq(bs, cut + 1, Len(bs)), limit)
    ELSE IF bs # <<>> THEN <<Decode(bs)>> ELSE <<>>

fold_ical_line(l) == Merge(SplitAll(Encode(l), Limit))

----------------------------------------------------------------------------
(* The values of table cells *)

\* A cell of the DataFrame pd.read_csv returns is a text, or NaN where the
\* table has no value.  Row.get of a column the table lacks gives the default
\* it is called with: None, or "".
None_ == [t |-> "none", s |-> <<>>]
NaN == [t |-> "nan", s |-> <<>>]
S(txt) == [t |-> "str", s |-> txt]
Empty == S(<<>>)

\* str(v)
py_str(v) ==
    IF v.t = "nan" THEN K_nan
    ELSE IF v.t = "none" THEN K_None
    ELSE v.s

\* bool(v): None and "" are false; NaN, a float that is not zero, is true
py_bool(v) == IF v.t = "none" THEN FALSE ELSE IF v.t = "nan" THEN TRUE ELSE v.s # <<>>

\* a or b
py_or(a, c) == IF py_bool(a) THEN a ELSE c

Whitespace == {9, 10, 11, 12, 13, 32}

\* str.strip()
strip(txt) ==
    LET keep == {i \in 1..Len(txt) : txt[i] \notin Whitespace} IN
    IF keep = {} THEN <<>>
    ELSE LET lo == CHOOSE i \in keep : \A j \in keep : i <= j
             hi == CHOOSE i \in keep : \A j \in keep : i >= j
         IN SubSeq(txt, lo, hi)

\* str.lower() and str.isalnum(), on ASCII and the Latin-1 letters
IsUpper(c) == (c >= 65 /\ c <= 90) \/ (c >= 192 /\ c <= 222 /\ c # 215)
IsLower(c) == (c >= 97 /\ c <= 122) \/ (c >= 223 /\ c <= 255 /\ c # 247)
IsDigit(c) == c >= 48 /\ c <= 57
lower_char(c) == IF IsUpper(c) THEN c + 32 ELSE c
lower(txt) == [i \in 1..Len(txt) |-> lower_char(txt[i])]
isalnum(c) == IsUpper(c) \/ IsLower(c) \/ IsDigit(c)

\* r.get(col, default) on a row of a table with the columns cols
get(cols, r, col, default) == IF col \in cols THEN r[col] ELSE default

----------------------------------------------------------------------------
(* slugify *)

HYPHEN == 45

\* str.strip("-")
strip_hyphens(txt) ==
    LET keep == {i \in 1..Len(txt) : txt[i] # HYPHEN} IN
    IF keep = {} THEN <<>>
    ELSE LET lo == CHOOSE i \in keep : \A j \in keep : i <= j
             hi == CHOOSE i \in keep : \A j \in keep : i >= j
         IN SubSeq(txt, lo, hi)

slugify(txt) ==
    LET mapped == [i \in 1..Len(txt) |->
                      IF isalnum(txt[i]) THEN lower_char(txt[i]) ELSE HYPHEN]
        t == strip_hyphens(mapped)
    IN IF t # <<>> THEN t ELSE K_general

----------------------------------------------------------------------------
(* Dates and times *)

\* The value of a text of decimal digits.
RECURSIVE DigitsValue(_)
DigitsValue(txt) ==
    IF txt = <<>> THEN 0
    ELSE 10 * DigitsValue(SubSeq(txt, 1, Len(txt) - 1)) + (txt[Len(txt)] - 48)

AllDigits(txt) == \A i \in 1..Len(txt) : IsDigit(txt[i])

\* str.split(sep) for a one-character sep
Split(txt, sep) ==
    LET n == Len(txt)
        at == {i \in 1..n : txt[i] = sep}
        \* the k-th separator position, 0 before the first, n + 1 after the last
        pos(k) == IF k = 0 THEN 0
                  ELSE IF k > Cardinality(at) THEN n + 1
                  ELSE CHOOSE i \in at : Cardinality({j \in at : j <= i}) = k
    IN [k \in 1..(Cardinality(at) + 1) |-> SubSeq(txt, pos(k - 1) + 1, pos(k) - 1)]

IsLeap(y) == (y % 4 = 0 /\ y % 100 # 0) \/ y % 400 = 0

DaysInMonth(y, m) ==
    IF m = 2 THEN (IF IsLeap(y) THEN 29 ELSE 28)
    ELSE IF m \in {4, 6, 9, 11} THEN 30 ELSE 31

\* None, for a date and for a time
NoDate == [ok |-> FALSE, year |-> 0, month |-> 0, day |-> 0]
NoTime == [ok |-> FALSE, hour |-> 0, minute |-> 0, second |-> 0]

\* date(y, m, d), which raises ValueError for a date the calendar lacks
MkDate(y, m, d) ==
    IF y >= 1 /\ y <= 9999 /\ m >= 1 /\ m <= 12 /\ d >= 1 /\ d <= DaysInMonth(y, m)
    THEN [ok |-> TRUE, year |-> y, month |-> m, day |-> d]
    ELSE NoDate

MkTime(h, m, sec) ==
    IF h >= 0 /\ h <= 23 /\ m >= 0 /\ m <= 59 /\ sec >= 0 /\ sec <= 59
    THEN [ok |-> TRUE, hour |-> h, minute |-> m, second |-> sec]
    ELSE NoTime

\* The fields strptime's directives accept:
\* %Y four digits; %m and %d one or two digits, %d also a space and a digit;
\* %H, %M and %S one or two digits.  The ranges are checked by MkDate, MkTime.
FieldY(f) == Len(f) = 4 /\ AllDigits(f)
FieldN(f) == Len(f) \in {1, 2} /\ AllDigits(f)
FieldM(f) == FieldN(f) /\ DigitsValue(f) # 0
FieldD(f) == \/ FieldN(f) /\ DigitsValue(f) # 0
             \/ Len(f) = 2 /\ f[1] = SPACE /\ IsDigit(f[2]) /\ f[2] # 48
ValueD(f) == IF f[1] = SPACE THEN f[2] - 48 ELSE DigitsValue(f)

\* datetime.strptime(s, "%Y-%m-%d").date(); NoDate where it raises ValueError
strptime_Ymd(txt) ==
    LET f == Split(txt, HYPHEN) IN
    IF Len(f) = 3 /\ FieldY(f[1]) /\ FieldM(f[2]) /\ FieldD(f[3])
    THEN MkDate(DigitsValue(f[1]), DigitsValue(f[2]), ValueD(f[3]))
    ELSE NoDate

SLASH == 47
COLON == 58

\* datetime.strptime(s, "%d/%m/%Y").date()
strptime_dmY(txt) ==
    LET f == Split(txt, SLASH) IN
    IF Len(f) = 3 /\ FieldD(f[1]) /\ FieldM(f[2]) /\ FieldY(f[3])
    THEN MkDate(DigitsValue(f[3]), DigitsValue(f[2]), ValueD(f[1]))
    ELSE NoDate

\* datetime.strptime(s, "%m/%d/%Y").date()
strptime_mdY(txt) ==
    LET f == Split(txt, SLASH) IN
    IF Len(f) = 3 /\ FieldM(f[1]) /\ FieldD(f[2]) /\ FieldY(f[3])
    THEN MkDate(DigitsValue(f[3]), DigitsValue(f[1]), ValueD(f[2]))
    ELSE NoDate

\* datetime.strptime(s, "%H:%M").time() and "%H:%M:%S"
strptime_HM(txt) ==
    LET f == Split(txt, COLON) IN
    IF Len(f) = 2 /\ FieldN(f[1]) /\ FieldN(f[2])
    THEN MkTime(DigitsValue(f[1]), DigitsValue(f[2]), 0)
    ELSE NoTime

strptime_HMS(txt) ==
    LET f == Split(txt, COLON) IN
    IF Len(f) = 3 /\ FieldN(f[1]) /\ FieldN(f[2]) /\ FieldN(f[3])
    THEN MkTime(DigitsValue(f[1]), DigitsValue(f[2]), DigitsValue(f[3]))
    ELSE NoTime

\* datetime.fromisoformat(s), for the shapes YYYY-MM-DD, YYYY-MM-DD?HH:MM and
\* YYYY-MM-DD?HH:MM:SS (? any one character); other texts of this model are
\* not ISO 8601 dates and raise.  The result is the pair of date and time.
IsoDatePart(txt) ==
    IF Len(txt) >= 10 /\ txt[5] = HYPHEN /\ txt[8] = HYPHEN
       /\ AllDigits(SubSeq(txt, 1, 4)) /\ AllDigits(SubSeq(txt, 6, 7))
       /\ AllDigits(SubSeq(txt, 9, 10))
    THEN MkDate(DigitsValue(SubSeq(txt, 1, 4)), DigitsValue(SubSeq(txt, 6, 7)),
                DigitsValue(SubSeq(txt, 9, 10)))
    ELSE NoDate

IsoTimePart(txt) ==
    LET n == Len(txt)
        two(i) == AllDigits(SubSeq(txt, i, i + 1))
        val(i) == DigitsValue(SubSeq(txt, i, i + 1))
    IN IF n = 10 THEN MkTime(0, 0, 0)
       ELSE IF n = 16 /\ two(12) /\ txt[14] = COLON /\ two(15)
            THEN MkTime(val(12), val(15), 0)
       ELSE IF n = 19 /\ two(12) /\ txt[14] = COLON /\ two(15)
               /\ txt[17] = COLON /\ two(18)
            THEN MkTime(val(12), val(15), val(18))
       ELSE NoTime

fromisoformat(txt) ==
    LET d == IsoDatePart(txt)
        t == IF d.ok THEN IsoTimePart(txt) ELSE NoTime
    IN IF d.ok /\ t.ok THEN [ok |-> TRUE, date |-> d, time |-> t]
       ELSE [ok |-> FALSE, date |-> NoDate, time |-> NoTime]

\* _to_date.  The isinstance branches are for datetime and date objects,
\* which pd.read_csv does not produce.
to_date(val) ==
    IF val.t = "none" \/ (val.t = "str" /\ val.s = <<>>) THEN NoDate
    ELSE LET txt == strip(py_str(val)) IN
         IF strptime_Ymd(txt).ok THEN strptime_Ymd(txt)
         ELSE IF strptime_dmY(txt).ok THEN strptime_dmY(txt)
         ELSE IF strptime_mdY(txt).ok THEN strptime_mdY(txt)
         ELSE fromisoformat(txt).date

\* _to_time
to_time(val) ==
    IF val.t = "none" \/ (val.t = "str" /\ val.s = <<>>) THEN NoTime
    ELSE LET txt == strip(py_str(val)) IN
         IF strptime_HM(txt).ok THEN strptime_HM(txt)
         ELSE IF strptime_HMS(txt).ok THEN strptime_HMS(txt)
         ELSE IF fromisoformat(txt).ok
              THEN [fromisoformat(txt).time EXCEPT !.second = 0]
              ELSE NoTime

\* d + timedelta(days=1)
SameDay(d) == d

NextDay(d) ==
    IF d.day < DaysInMonth(d.year, d.month) THEN [d EXCEPT !.day = d.day + 1]
    ELSE IF d.month < 12 THEN [d EXCEPT !.month = d.month + 1, !.day = 1]
    ELSE [d EXCEPT !.year = d.year + 1, !.month = 1, !.day = 1]

PrevDay(d) ==
    IF d.day > 1 THEN [d EXCEPT !.day = d.day - 1]
    ELSE IF d.month > 1
         THEN [d EXCEPT !.month = d.month - 1, !.day = DaysInMonth(d.year, d.month - 1)]
    ELSE [d EXCEPT !.year = d.year - 1, !.month = 12, !.day = 31]

\* date.toordinal(): day 1 is 0001-01-01, a Monday
DaysBeforeMonth(y, m) ==
    LET cum == <<0, 31, 59, 90, 120, 151, 181, 212, 243, 273, 304, 334>> IN
    cum[m] + (IF m > 2 /\ IsLeap(y) THEN 1 ELSE 0)

toordinal(d) ==
    LET y == d.year - 1 IN
    365 * y + (y \div 4) - (y \div 100) + (y \div 400)
        + DaysBeforeMonth(d.year, d.month) + d.day

IsSunday(d) == toordinal(d) % 7 = 0

\* The first Sunday of month m of year y.
FirstSunday(y, m) ==
    CHOOSE k \in 1..7 : IsSunday([ok |-> TRUE, year |-> y, month |-> m, day |-> k])

Pad2(n) == <<48 + (n \div 10), 48 + (n % 10)>>
Pad4(n) == <<48 + (n \div 1000), 48 + ((n \div 100) % 10),
             48 + ((n \div 10) % 10), 48 + (n % 10)>>

\* d.strftime("%Y%m%d")
fmt_date(d) == Pad4(d.year) \o Pad2(d.month) \o Pad2(d.day)

\* ZoneInfo("Australia/Sydney").utcoffset(dt) in hours, under the rule in
\* force since 2008: daylight time from the first Sunday of October to the
\* first Sunday of April, each change at 03:00 on the wall clock as seen
\* with fold = 0.
SydneyOffset(d, h) ==
    LET afterStart == d.month > 10 \/
            (d.month = 10 /\ (d.day > FirstSunday(d.year, 10) \/
                              (d.day = FirstSunday(d.year, 10) /\ h >= 3)))
        beforeEnd == d.month < 4 \/
            (d.month = 4 /\ (d.day < FirstSunday(d.year, 4) \/
                             (d.day = FirstSunday(d.year, 4) /\ h < 3)))
    IN IF afterStart \/ beforeEnd THEN 11 ELSE 10

\* parse_local_datetime; the result with ok = FALSE stands for None
NoDateTime == [ok |-> FALSE, date |-> NoDate, hour |-> 0, minute |-> 0]

parse_local_datetime(d_val, t_val) ==
    LET d == to_date(d_val)
        t == IF to_time(t_val).ok THEN to_time(t_val) ELSE MkTime(0, 0, 0)
    IN IF ~d.ok THEN NoDateTime
       ELSE [ok |-> TRUE, date |-> d, hour |-> t.hour, minute |-> t.minute]

\* fmt_utc of a datetime in DEFAULT_TZ
fmt_utc(dt) ==
    LET h == dt.hour - SydneyOffset(dt.date, dt.hour)
        d == IF h < 0 THEN PrevDay(dt.date) ELSE dt.date
        hh == IF h < 0 THEN h + 24 ELSE h
    IN fmt_date(d) \o K_T \o Pad2(hh) \o Pad2(dt.minute) \o K_00Z

\* truthy
TruthyWords == { K_true, K_yes, K_y, K_1,
                 K_transparent, K_free }

truthy(val) ==
    IF val.t = "none" THEN FALSE
    ELSE lower(strip(py_str(val))) \in TruthyWords

----------------------------------------------------------------------------
(* make_uid *)

VBAR == 124

HexDigits == Str("0123456789abcdef")

\* "|".join(str(x) for x in fields)
JoinFields(fields) ==
    Flatten([i \in 1..Len(fields) |->
                IF i = 1 THEN fields[i] ELSE <<VBAR>> \o fields[i]])

\* hashlib.sha1(data).hexdigest()[:16], idealised as a digest without
\* collisions: the hexadecimal text of the data itself.  Equal data give
\* equal digests and different data give different digests, which is what
\* SHA-1 gives for every pair of inputs one can write down.
sha1_hexdigest16(data) ==
    Flatten([i \in 1..Len(data) |->
                <<HexDigits[(data[i] \div 16) + 1], HexDigits[(data[i] % 16) + 1]>>])

\* make_uid with the last field, the name of the feed, left out of the digest
make_uid_without_feed(fields) ==
    sha1_hexdigest16(Encode(JoinFields(SubSeq(fields, 1, Len(fields) - 1))))
        \o K_UID_DOMAIN

make_uid(fields) ==
    sha1_hexdigest16(Encode(JoinFields(fields))) \o K_UID_DOMAIN

----------------------------------------------------------------------------
(* build_ics_for_group *)

\* add_prop for each property of props in turn: the physical lines
add_props(props) == Flatten([i \in 1..Len(props) |-> fold_ical_line(props[i])])

\* "\r\n".join(lines) + "\r\n"
JoinCRLF(lines) == Flatten([i \in 1..Len(lines) |-> lines[i] \o <<CR, NL>>])

Header(cal_name) == <<
    K_BEGIN_VCALENDAR,
    K_PRODID,
    K_VERSION_2_0,
    K_CALSCALE_GREGORIAN,
    K_METHOD_PUBLISH,
    K_X_WR_CALNAME \o ical_escape(cal_name),
    K_TTL >>

\* The date properties of an all-day event.
AllDayProps(sdate, edate) ==
    LET start_d == to_date(sdate)
        end_d == IF to_date(edate).ok THEN to_date(edate) ELSE start_d
        end_excl == NextDay(end_d)
    IN << K_DTSTART_VALUE_DATE \o fmt_date(start_d),
          K_DTEND_VALUE_DATE \o fmt_date(end_excl) >>

\* The date properties of a timed event; none when an instant is None.
TimedProps(sdate, stime, edate, etime) ==
    LET dt_start_local == parse_local_datetime(sdate, stime)
        dt_end_local == parse_local_datetime(py_or(edate, sdate),
                            py_or(py_or(etime, stime), S(K_MIDNIGHT)))
    IN IF ~dt_start_local.ok \/ ~dt_end_local.ok THEN <<>>
       ELSE << K_DTSTART \o fmt_utc(dt_start_local),
               K_DTEND \o fmt_utc(dt_end_local) >>

\* One pass of the loop over the rows: the properties the row r adds.
RowProps(cols, r, cal_name, now_utc) ==
    LET title == strip(py_str(py_or(get(cols, r, "Title", Empty), Empty)))
        sdate == get(cols, r, "Start Date", None_)
        uid0 == py_str(py_or(get(cols, r, "UID", Empty), Empty))
        cat == strip(py_str(py_or(get(cols, r, "Calendar", Empty), Empty)))
        stime == py_or(get(cols, r, "Start Time", None_), Empty)
        edate == py_or(get(cols, r, "End Date", None_), Empty)
        etime == py_or(get(cols, r, "End Time", None_), Empty)
        location == strip(py_str(py_or(get(cols, r, "Location", Empty), Empty)))
        desc == strip(py_str(py_or(get(cols, r, "Description", Empty), Empty)))
        url == strip(py_str(py_or(get(cols, r, "URL", Empty), Empty)))
        is_transparent == truthy(get(cols, r, "Transparent", None_))
        is_all_day == ~to_time(stime).ok /\ ~to_time(etime).ok
        uid == IF uid0 # <<>> THEN uid0
               ELSE make_uid(<<title, py_str(sdate), py_str(edate), py_str(stime),
                               py_str(etime), location, cal_name>>)
        cats == (IF cat # <<>> THEN <<cat>> ELSE <<>>)
                    \o (IF location # <<>> THEN <<location>> ELSE <<>>)
        joined == IF Len(cats) = 2 THEN cats[1] \o <<COMMA>> \o cats[2]
                  ELSE IF Len(cats) = 1 THEN cats[1] ELSE <<>>
    IN IF title = <<>> THEN <<>>
       ELSE IF ~to_date(sdate).ok THEN <<>>
       ELSE << K_BEGIN_VEVENT,
               K_UID \o uid,
               K_DTSTAMP \o now_utc,
               K_SUMMARY \o ical_escape(title),
               K_TRANSP \o (IF is_transparent THEN K_TRANSPARENT
                                  ELSE K_OPAQUE) >>
            \o (IF location # <<>>
                THEN <<K_LOCATION \o ical_escape(location)>> ELSE <<>>)
            \o (IF desc # <<>>
                THEN <<K_DESCRIPTION \o ical_escape(desc)>> ELSE <<>>)
            \o (IF url # <<>> THEN <<K_URL \o ical_escape(url)>> ELSE <<>>)
            \o (IF cats # <<>>
                THEN <<K_CATEGORIES \o ical_escape(joined)>> ELSE <<>>)
            \o (IF is_all_day THEN AllDayProps(sdate, edate)
                ELSE TimedProps(sdate, stime, edate, etime))
            \o <<K_END_VEVENT>>

\* now_utc is datetime.now(timezone.utc) as formatted by the first statement.
build_ics_for_group(cols, rows, cal_name, now_utc) ==
    JoinCRLF(add_props(
        Header(cal_name)
        \o Flatten([i \in 1..Len(rows) |-> RowProps(cols, rows[i], cal_name, now_utc)])
        \o <<K_END_VCALENDAR>>))

----------------------------------------------------------------------------
(* The state of each function while it is not running *)

MainIdle ==
    /\ sheet = [cols |-> {}, rows |-> <<>>]
    /\ pc = "idle" /\ csv_url = FALSE /\ columns = {} /\ df = <<>>
    /\ categories = <<>> /\ built = <<>> /\ files = <<>> /\ clock = 0

FoldIdle ==
    /\ line = <<>> /\ b = <<>> /\ out = <<>> /\ merged = <<>> /\ fpc = "idle"

EscIdle ==
    /\ text = <<>> /\ escaped = <<>> /\ unescaped = <<>> /\ epc = "idle"

----------------------------------------------------------------------------
(* main *)

CAL_REQUIRED_none == {}

CAL_REQUIRED == {"Title", "Start Date"}

GENERAL == Str("General")

\* a < c in the order sorted() puts texts in: by code point, a prefix first
LexLess(a, c) ==
    \/ \E i \in 1..Len(a) :
          /\ i <= Len(c)
          /\ a[i] < c[i]
          /\ \A j \in 1..(i - 1) : a[j] = c[j]
    \/ Len(a) < Len(c) /\ \A j \in 1..Len(a) : a[j] = c[j]

\* sorted(set of texts)
sorted(T) ==
    [k \in 1..Cardinality(T) |->
        CHOOSE x \in T : Cardinality({y \in T : LexLess(y, x)}) = k - 1]

\* df["Calendar"].fillna("General").apply(lambda x: x if str(x).strip() else "General")
FillCategory(v) ==
    IF v.t = "nan" THEN S(GENERAL)
    ELSE IF strip(py_str(v)) # <<>> THEN v ELSE S(GENERAL)

\* Lines 171-173: the Calendar column, added when the table lacks it
FillCalendar(cols, rows) ==
    [i \in 1..Len(rows) |->
        [c \in (DOMAIN rows[i]) \cup {"Calendar"} |->
            IF c = "Calendar"
            THEN (IF "Calendar" \in cols THEN FillCategory(rows[i][c]) ELSE S(GENERAL))
            ELSE rows[i][c]]]

\* df[df["Calendar"] == cat]
SubFrameAll(rows, cat) == rows

SubFrame(rows, cat) ==
    LET keep(i) == rows[i]["Calendar"] = S(cat)
        idx == {i \in 1..Len(rows) : keep(i)}
    IN [k \in 1..Cardinality(idx) |->
          rows[CHOOSE i \in idx : Cardinality({j \in idx : j <= i}) = k]]

\* f"calendar-{slug}.ics"
FileName(cat) == K_CALENDAR_PREFIX \o slugify(cat) \o K_ICS

ALL == Str("All")
ALL_FILE == Str("calendar-all.ics")
INDEX_FILE == Str("index.html")

\* open(path, "w").write(content): the file is created or replaced
WriteFile(fs, name, content) ==
    [n \in (DOMAIN fs) \cup {name} |-> IF n = name THEN content ELSE fs[n]]

MaxTicks == 1

\* datetime.now(timezone.utc).strftime("%Y%m%dT%H%M%SZ") at second t of the run
Stamp(t) == K_RUN_START \o Pad2(t) \o K_Z

\* The readings of the wall clock a statement can see after the reading c.
Readings(c) == {t \in c..(c + 1) : t <= MaxTicks}

\* Lines 160-163
Start ==
    /\ pc = "start"
    /\ pc' = IF csv_url THEN "read" ELSE "exit"
    /\ UNCHANGED <<sheet, csv_url, columns, df, categories, built, files, clock,
                   foldVars, escVars>>

\* Line 165: pd.read_csv returns the table
ReadCsv ==
    /\ pc = "read"
    /\ columns' = sheet.cols
    /\ df' = sheet.rows
    /\ pc' = "check"
    /\ UNCHANGED <<sheet, csv_url, categories, built, files, clock,
                   foldVars, escVars>>

\* Line 165: pd.read_csv raises, the source being unreachable
ReadCsvFails ==
    /\ pc = "read"
    /\ pc' = "failed"
    /\ UNCHANGED <<sheet, csv_url, columns, df, categories, built, files, clock,
                   foldVars, escVars>>

\* Lines 167-169
CheckRequired ==
    /\ pc = "check"
    /\ pc' = IF \E c \in CAL_REQUIRED : c \notin columns THEN "failed" ELSE "fill"
    /\ UNCHANGED <<sheet, csv_url, columns, df, categories, built, files, clock,
                   foldVars, escVars>>

\* Lines 171-179
Normalize ==
    /\ pc = "fill"
    /\ df' = FillCalendar(columns, df)
    /\ columns' = columns \cup {"Calendar"}
    /\ categories' = sorted({df'[i]["Calendar"].s : i \in 1..Len(df')})
    /\ built' = <<>>
    /\ pc' = "loop"
    /\ UNCHANGED <<sheet, csv_url, files, clock, foldVars, escVars>>

\* Lines 181-188: one pass of the loop over the categories
WriteCategory ==
    /\ pc = "loop"
    /\ categories # <<>>
    /\ \E t \in Readings(clock) :
        LET cat == Head(categories)
            sub == SubFrame(df, cat)
            ics == build_ics_for_group(columns, sub, cat, Stamp(t))
            fname == FileName(cat)
        IN /\ files' = WriteFile(files, fname, ics)
           /\ built' = Append(built, <<cat, fname, Len(sub)>>)
           /\ clock' = t
    /\ categories' = Tail(categories)
    /\ UNCHANGED <<sheet, pc, csv_url, columns, df, foldVars, escVars>>

\* Lines 190-192
WriteAll ==
    /\ pc = "loop"
    /\ categories = <<>>
    /\ \E t \in Readings(clock) :
        /\ files' = WriteFile(files, ALL_FILE,
                              build_ics_for_group(columns, df, ALL, Stamp(t)))
        /\ clock' = t
    /\ pc' = "index"
    /\ UNCHANGED <<sheet, csv_url, columns, df, categories, built,
                   foldVars, escVars>>

\* Lines 194-363: the page is the fixed template with the list of feeds
WriteIndex ==
    /\ pc = "index"
    /\ LET feeds == <<[label |-> K_ALL_LABEL, file |-> ALL_FILE,
                       count |-> Len(df)]>>
                    \o [i \in 1..Len(built) |->
                          [label |-> built[i][1], file |-> built[i][2],
                           count |-> built[i][3]]]
       IN files' = WriteFile(files, INDEX_FILE,
                             [template |-> "HTML_TEMPLATE", feeds |-> feeds])
    /\ pc' = "done"
    /\ UNCHANGED <<sheet, csv_url, columns, df, categories, built, clock,
                   foldVars, escVars>>

Next ==
    \/ Start
    \/ ReadCsv
    \/ ReadCsvFails
    \/ CheckRequired
    \/ Normalize
    \/ WriteCategory
    \/ WriteAll
    \/ WriteIndex

----------------------------------------------------------------------------
(* The tables main is run on *)

AllColumns == {"Title", "Start Date", "Start Time", "End Date", "End Time",
               "Location", "Description", "URL", "Calendar", "Transparent", "UID"}

T(x) == S(Str(x))

Row(title, sdate, stime, edate, etime, location, calendar, transparent, uid) ==
    [c \in AllColumns |->
        CASE c = "Title" -> title
          [] c = "Start Date" -> sdate
          [] c = "Start Time" -> stime
          [] c = "End Date" -> edate
          [] c = "End Time" -> etime
          [] c = "Location" -> location
          [] c = "Calendar" -> calendar
          [] c = "Transparent" -> transparent
          [] c = "UID" -> uid
          [] OTHER -> NaN]

\* The rows of a table with the columns cols: the cells of other columns
\* do not exist.
Restrict(r, cols) == [c \in cols |-> r[c]]

MaxRows == 2

RowPool == {
    \* an all-day event with its own identifier
    Row(T("Exam"), T("2025-03-10"), NaN, NaN, NaN, T("Gym, Hall"), T("Sports"),
        T("yes"), T("u-1")),
    \* a timed event, in a category whose slug is that of Sports
    Row(T("Match"), T("10/03/2025"), T("09:00"), T("2025-03-10"), T("10:30"), NaN,
        T("SPORTS"), NaN, NaN),
    \* a title of spaces, no category
    Row(T("  "), T("2025-03-10"), NaN, NaN, NaN, NaN, NaN, NaN, NaN),
    \* no title, in the category All
    Row(NaN, T("2025-03-11"), NaN, NaN, NaN, NaN, T("All"), NaN, T("u-4")),
    \* a start date in no format, a category of spaces
    Row(T("Quiz"), T("not-a-date"), NaN, NaN, NaN, NaN, T("  "), NaN, T("u-5")),
    \* a timed event whose end date is in no format
    Row(T("Talk"), T("2025-03-10"), T("09:00"), T("garbage"), NaN, NaN, T("Sports"),
        T("no"), T("u-6")) }

ColumnSets == {
    AllColumns,
    AllColumns \ {"UID", "Description", "URL", "End Date", "End Time"},
    {"Title", "Start Date"},
    AllColumns \ {"Title"},
    AllColumns \ {"Start Date"} }

Tables ==
    { [cols |-> cs, rows |-> [i \in 1..n |-> Restrict(pick[i], cs)]] :
        cs \in ColumnSets,
        n \in {n \in 0..MaxRows : TRUE},
        pick \in [1..MaxRows -> RowPool] }

InitMain(tables, urls) ==
    /\ FoldIdle /\ EscIdle
    /\ sheet \in tables
    /\ csv_url \in urls
    /\ pc = "start"
    /\ columns = {} /\ df = <<>> /\ categories = <<>> /\ built = <<>>
    /\ files = <<>>
    /\ clock = 0

Init == InitMain(Tables, BOOLEAN)

Spec == Init /\ [][Next]_vars

----------------------------------------------------------------------------
(* Reading a calendar document back *)

\* The physical lines of a document: the texts its CR LF pairs end.
RECURSIVE LinesFrom(_, _, _)
LinesFrom(doc, ends, from) ==
    LET rest == {e \in ends : e >= from} IN
    IF rest = {} THEN <<>>
    ELSE LET e == CHOOSE x \in rest : \A y \in rest : x <= y IN
         <<SubSeq(doc, from, e - 2)>> \o LinesFrom(doc, ends, e + 1)

PhysicalLines(doc) ==
    LinesFrom(doc, {i \in 2..Len(doc) : doc[i] = NL /\ doc[i - 1] = CR}, 1)

\* The logical lines: each physical line that starts with a space continues
\* the line before it.
RECURSIVE Unfolded(_)
Unfolded(ls) ==
    IF ls = <<>> THEN <<>>
    ELSE LET n == Len(ls)
             last == ls[n]
             before == Unfolded(SubSeq(ls, 1, n - 1))
         IN IF last # <<>> /\ last[1] = SPACE /\ before # <<>>
            THEN [before EXCEPT ![Len(before)] = @ \o Tail(last)]
            ELSE Append(before, last)

LogicalLines(doc) == Unfolded(PhysicalLines(doc))

\* The event blocks of a document, in order: for each BEGIN:VEVENT the lines
\* up to the next END:VEVENT.
EventBlocks(doc) ==
    LET ls == LogicalLines(doc)
        begins == {i \in 1..Len(ls) : ls[i] = K_BEGIN_VEVENT}
        endOf(i) == CHOOSE j \in (i + 1)..Len(ls) :
                        /\ ls[j] = K_END_VEVENT
                        /\ \A k \in (i + 1)..(j - 1) : ls[k] # K_END_VEVENT
    IN [k \in 1..Cardinality(begins) |->
          LET i == CHOOSE x \in begins : Cardinality({y \in begins : y <= x}) = k
          IN SubSeq(ls, i + 1, endOf(i) - 1)]

StartsWith(l, prefix) ==
    Len(l) >= Len(prefix) /\ SubSeq(l, 1, Len(prefix)) = prefix

HasProp(block, prefix) == \E i \in 1..Len(block) : StartsWith(block[i], prefix)

\* The value of the first line of the block that starts with prefix.
PropValue(block, prefix) ==
    LET i == CHOOSE x \in 1..Len(block) :
                 /\ StartsWith(block[x], prefix)
                 /\ \A y \in 1..(x - 1) : ~StartsWith(block[y], prefix)
    IN SubSeq(block[i], Len(prefix) + 1, Len(block[i]))

\* The block without its generation timestamp.
WithoutStamp(block) == SelectSeq(block, LAMBDA l : ~StartsWith(l, K_DTSTAMP))

\* The calendar documents among the files.
Calendars == (DOMAIN files) \ {INDEX_FILE}

K_DTSTART_ANY == Str("DTSTART")
K_DTEND_ANY == Str("DTEND")

\* A cell with no value: a column the table lacks, a cell left empty, or a
\* cell of white space only.
Missing(v) == v.t \in {"none", "nan"} \/ strip(v.s) = <<>>

Cell(r, col) == IF col \in DOMAIN r THEN r[col] ELSE None_

----------------------------------------------------------------------------
(* Claims about main and build_ics_for_group *)

\* C1: when Title or Start Date is absent from the table, the run fails with
\* no file written; whenever a file has been written, the check of the
\* required columns has passed.
C1_RequiredColumnsBeforeAnyWrite ==
    /\ pc = "failed" => DOMAIN files = {}
    /\ DOMAIN files # {} =>
          /\ {"Title", "Start Date"} \subseteq columns
          /\ pc \in {"loop", "index", "done"}
    /\ pc \in {"fill", "loop", "index", "done"} =>
          {"Title", "Start Date"} \subseteq sheet.cols

\* C1 witness: a table with rows and no Title column was read, and the run
\* failed.
C1_Witness ==
    /\ pc = "failed"
    /\ df # <<>>
    /\ "Title" \notin columns
    /\ "Start Date" \in columns

\* The rows of the table that C2 lets through: a title that is not empty and
\* a start date in a recognized format.
Admitted == { i \in 1..Len(sheet.rows) :
                /\ ~Missing(Cell(sheet.rows[i], "Title"))
                /\ to_date(Cell(sheet.rows[i], "Start Date")).ok }

\* C2: a row whose Title is empty or white space, or whose Start Date is in
\* no recognized format, adds no event block to any document: no document
\* has more event blocks than the table has other rows.
C2_BlankOrUndatedRowsAddNothing ==
    pc = "done" =>
        \A f \in Calendars : Len(EventBlocks(files[f])) <= Cardinality(Admitted)

\* C8: every event block of every document has a start and an end property.
C8_EveryBlockHasStartAndEnd ==
    \A f \in Calendars :
        \A k \in 1..Len(EventBlocks(files[f])) :
            /\ HasProp(EventBlocks(files[f])[k], K_DTSTART_ANY)
            /\ HasProp(EventBlocks(files[f])[k], K_DTEND_ANY)

WithoutStampUid(block) ==
    SelectSeq(block, LAMBDA l : ~StartsWith(l, K_DTSTAMP) /\ ~StartsWith(l, K_UID))

Cats == {df[i]["Calendar"].s : i \in 1..Len(df)}

\* The rows of the category c, in order.
RowsOf(c) == SelectSeq(df, LAMBDA r : r["Calendar"].s = c)

\* The document doc is the rendering of rows under the name cal_name.
IsRendering(doc, rows, cal_name) ==
    \E t \in 0..MaxTicks : doc = build_ics_for_group(columns, rows, cal_name, Stamp(t))

\* No two categories have the same slug, and none has the slug of the
\* combined document.
SlugsDistinct ==
    /\ \A c1, c2 \in Cats : c1 # c2 => slugify(c1) # slugify(c2)
    /\ \A c \in Cats : FileName(c) # ALL_FILE

\* The category of every row is its Calendar cell, or General when the cell
\* has no value.
FallbackSubstituted ==
    /\ Len(df) = Len(sheet.rows)
    /\ \A i \in 1..Len(df) :
          df[i]["Calendar"] =
              IF Missing(Cell(sheet.rows[i], "Calendar")) THEN S(GENERAL)
              ELSE sheet.rows[i]["Calendar"]

\* Every document written so far still holds what was written, and at the
\* end there is one document per category and the combined one.
OneDocumentPerFeed ==
    /\ pc \in {"loop", "index", "done"} =>
          /\ FallbackSubstituted
          /\ \A i \in 1..Len(built) :
                /\ built[i][2] = FileName(built[i][1])
                /\ built[i][2] \in DOMAIN files
                /\ IsRendering(files[built[i][2]], RowsOf(built[i][1]), built[i][1])
    /\ pc \in {"index", "done"} =>
          /\ {built[i][1] : i \in 1..Len(built)} = Cats
          /\ ALL_FILE \in DOMAIN files
          /\ IsRendering(files[ALL_FILE], df, ALL)
          /\ Cardinality(Calendars) = Cardinality(Cats) + 1

\* C10 as stated: for every table, each feed is held by exactly one document
\* and no write replaces a document written earlier in the run.
C10_OneDocumentPerFeed == OneDocumentPerFeed

\* C10 amended: the same, for the tables whose categories have slugs that
\* differ from each other and from that of the combined document.
C10_OneDocumentPerFeedDistinctSlugs ==
    (pc \in {"loop", "index", "done"} /\ SlugsDistinct) => OneDocumentPerFeed

\* C10 witness: a run has ended on a table with two categories of different
\* slugs, one of them the fallback for a row without a category, with three
\* calendar documents written, one of a category holding an event block.
C10_Witness ==
    /\ pc = "done"
    /\ SlugsDistinct
    /\ Cardinality(Cats) = 2
    /\ GENERAL \in Cats
    /\ \E i \in 1..Len(sheet.rows) : Missing(Cell(sheet.rows[i], "Calendar"))
    /\ Cardinality(Calendars) = 3
    /\ \E c \in Cats : Len(EventBlocks(files[FileName(c)])) >= 1

----------------------------------------------------------------------------
(* main on tables of one row, over the forms of its dates and times *)

RowStartDates == { T("2025-03-10"), T("2024-02-28"), T("31/12/2025"),
                   T("04/30/2025"), T("2025-10-05"), T("2025-04-06T02:30") }
RowEndDates == { NaN, T("2025-03-12"), T("29/02/2024"), T("garbage") }
RowStartTimes == { NaN, T("09:00"), T("2:30"), T("later") }
RowEndTimes == { NaN, T("10:30"), T("23:59:30"), T("soon") }

RowColumnSets == {
    AllColumns,
    AllColumns \ {"End Date", "End Time"},
    AllColumns \ {"Start Time", "End Date", "End Time"} }

RowTables ==
    { [cols |-> cs,
       rows |-> <<Restrict(Row(T("Exam"), sd, st, ed, et, T("Hall"), NaN, NaN,
                               T("u-1")), cs)>>] :
        cs \in RowColumnSets, sd \in RowStartDates, st \in RowStartTimes,
        ed \in RowEndDates, et \in RowEndTimes }

InitRow == InitMain(RowTables, {TRUE})

SpecRow == InitRow /\ [][Next]_vars

\* The one row of the table, and what its cells normalize to.
TheRow == sheet.rows[1]
RowStart == to_date(Cell(TheRow, "Start Date"))
RowEnd == to_date(Cell(TheRow, "End Date"))
AllDayRow == ~to_time(Cell(TheRow, "Start Time")).ok
                /\ ~to_time(Cell(TheRow, "End Time")).ok

\* The date a text of eight digits writes.
ParseDate8(v) ==
    IF Len(v) = 8 /\ AllDigits(v)
    THEN MkDate(DigitsValue(SubSeq(v, 1, 4)), DigitsValue(SubSeq(v, 5, 6)),
                DigitsValue(SubSeq(v, 7, 8)))
    ELSE NoDate

\* C3: the event block of an all-day row has the normalized start date as
\* its DTSTART date, and as its DTEND date the day after the End Date, or
\* after the start date when the End Date normalizes to none.
C3_AllDayExclusiveEnd ==
    AllDayRow =>
        \A f \in Calendars :
            \A k \in 1..Len(EventBlocks(files[f])) :
                LET blk == EventBlocks(files[f])[k]
                    resolved == IF RowEnd.ok THEN RowEnd ELSE RowStart
                IN /\ HasProp(blk, K_DTSTART_VALUE_DATE)
                   /\ HasProp(blk, K_DTEND_VALUE_DATE)
                   /\ ParseDate8(PropValue(blk, K_DTSTART_VALUE_DATE)) = RowStart
                   /\ ParseDate8(PropValue(blk, K_DTEND_VALUE_DATE)).ok
                   /\ toordinal(ParseDate8(PropValue(blk, K_DTEND_VALUE_DATE)))
                          = toordinal(resolved) + 1

\* C3 witness: the row that starts on 2025-03-10 with no end date and no
\* times is rendered with the end date 2025-03-11.
C3_Witness ==
    /\ pc = "done"
    /\ AllDayRow
    /\ TheRow["Start Date"] = T("2025-03-10")
    /\ Cell(TheRow, "End Date") = NaN
    /\ Len(EventBlocks(files[ALL_FILE])) = 1
    /\ PropValue(EventBlocks(files[ALL_FILE])[1], K_DTEND_VALUE_DATE) = Str("20250311")

\* The end instant C4 states: the End Date, or the start date when there is
\* none; the End Time, or the Start Time when there is none, or midnight.
ClaimedEnd ==
    LET sd == Cell(TheRow, "Start Date")
        st == Cell(TheRow, "Start Time")
        ed == Cell(TheRow, "End Date")
        et == Cell(TheRow, "End Time")
    IN parse_local_datetime(
           IF Missing(ed) THEN sd ELSE ed,
           IF ~Missing(et) THEN et ELSE IF ~Missing(st) THEN st ELSE S(K_MIDNIGHT))

\* C4: the event block of a timed row, each of whose end date and times is
\* missing or in a recognized format, has the claimed end instant as DTEND;
\* with no End Date and no End Time, DTEND equals DTSTART.
C4_TimedEndDefaults ==
    LET st == Cell(TheRow, "Start Time")
        ed == Cell(TheRow, "End Date")
        et == Cell(TheRow, "End Time")
    IN (/\ ~AllDayRow
        /\ Missing(st) \/ to_time(st).ok
        /\ Missing(ed) \/ to_date(ed).ok
        /\ Missing(et) \/ to_time(et).ok) =>
        \A f \in Calendars :
            \A k \in 1..Len(EventBlocks(files[f])) :
                LET blk == EventBlocks(files[f])[k] IN
                /\ HasProp(blk, K_DTSTART)
                /\ HasProp(blk, K_DTEND)
                /\ PropValue(blk, K_DTEND) = fmt_utc(ClaimedEnd)
                /\ (Missing(ed) /\ Missing(et)) =>
                      PropValue(blk, K_DTEND) = PropValue(blk, K_DTSTART)

----------------------------------------------------------------------------
(* fold_ical_line, statement by statement *)

FoldSlack == 4
TailSlack == 1

Pad(n) == [i \in 1..n |-> 120]

\* Texts whose encodings take 1, 2, 3 and 4 octets per character.
Mids == { <<>>, <<SPACE>>, <<233>>, <<8364>>, <<128512>>, <<233, 8364>>,
          <<128512, 128512>> }

FoldLines ==
    { Pad(n) \o mid \o Pad(m) :
        n \in (Limit - FoldSlack)..(Limit + 1),
        mid \in Mids,
        m \in {0} \cup ((Limit - 1)..(Limit + TailSlack)) }

InitFold ==
    /\ MainIdle /\ EscIdle
    /\ line \in FoldLines
    /\ b = <<>> /\ out = <<>> /\ merged = <<>>
    /\ fpc = "start"

\* b = line.encode("utf-8"); out = []
FoldEncode ==
    /\ fpc = "start"
    /\ b' = Encode(line)
    /\ out' = <<>>
    /\ fpc' = "split"
    /\ UNCHANGED <<line, merged, mainVars, escVars>>

\* one iteration of "while len(b) > limit"
FoldSplit ==
    /\ fpc = "split"
    /\ Len(b) > Limit
    /\ LET cut == Cut(b, Limit) IN
        /\ out' = out \o <<Decode(SubSeq(b, 1, cut)), <<SPACE>>>>
        /\ b' = SubSeq(b, cut + 1, Len(b))
    /\ UNCHANGED <<line, merged, fpc, mainVars, escVars>>

\* the loop ends; "if b: out.append(b.decode("utf-8"))"
FoldRest ==
    /\ fpc = "split"
    /\ Len(b) <= Limit
    /\ out' = IF b # <<>> THEN Append(out, Decode(b)) ELSE out
    /\ fpc' = "merge"
    /\ UNCHANGED <<line, b, merged, mainVars, escVars>>

\* the merging loop and the return
FoldMerge ==
    /\ fpc = "merge"
    /\ merged' = Merge(out)
    /\ fpc' = "done"
    /\ UNCHANGED <<line, b, out, mainVars, escVars>>

NextFold == FoldEncode \/ FoldSplit \/ FoldRest \/ FoldMerge

SpecFold == InitFold /\ [][NextFold]_vars

\* The number of octets of a physical line on the wire.
Octets(l) == Len(Encode(l))

\* What a reader of the wire format recovers: the lines joined, each
\* continuation line without its one leading space.
RECURSIVE Unfold(_)
Unfold(ls) ==
    IF ls = <<>> THEN <<>>
    ELSE IF Len(ls) = 1 THEN ls[1]
    ELSE Unfold(SubSeq(ls, 1, Len(ls) - 1)) \o Tail(ls[Len(ls)])

\* C5: every physical line fold_ical_line returns is at most 75 octets of
\* UTF-8, the leading space of a continuation line included, and every line
\* after the first starts with a space.
C5_LinesWithinLimit ==
    fpc = "done" =>
        /\ \A i \in 1..Len(merged) : Octets(merged[i]) <= Limit
        /\ \A i \in 2..Len(merged) : merged[i] # <<>> /\ merged[i][1] = SPACE

\* C6: fold_ical_line terminates (every iteration of the splitting loop
\* removes at least one octet), no split point falls inside a multi-byte
\* sequence (the bytes left always start on a lead or single-byte octet and
\* every chunk decodes), and unfolding the returned lines gives the line back.
C6_FoldRoundTrip ==
    /\ fpc = "split" /\ Len(b) > Limit =>
          /\ Cut(b, Limit) >= 1
          /\ ~IsContinuation(b[Cut(b, Limit) + 1])
    /\ fpc = "split" /\ b # <<>> => ~IsContinuation(b[1])
    /\ \A i \in 1..Len(out) : \A k \in 1..Len(out[i]) : out[i][k] # DecodeError
    /\ fpc = "done" =>
          /\ Unfold(merged) = line
          /\ merged = fold_ical_line(line)

\* C6 witness: a line was folded and the first split point was moved back
\* from octet 75 because octet 75 was inside a multi-byte sequence.
C6_Witness ==
    /\ fpc = "done"
    /\ Len(merged) >= 2
    /\ Octets(merged[1]) < Limit
    /\ \E k \in 1..Len(line) : line[k] >= 128

----------------------------------------------------------------------------
(* ical_escape, and the reader's inverse *)

MaxLen == 3

EscAlphabet == {BACKSLASH, COMMA, SEMICOLON, NL, LOWER_N, 97}

EscTexts == UNION { [1..n -> EscAlphabet] : n \in 0..MaxLen }

InitEscape ==
    /\ MainIdle /\ FoldIdle
    /\ text \in EscTexts
    /\ escaped = <<>> /\ unescaped = <<>>
    /\ epc = "start"

Escape ==
    /\ epc = "start"
    /\ escaped' = ical_escape(text)
    /\ epc' = "escaped"
    /\ UNCHANGED <<text, unescaped, mainVars, foldVars>>

ReadBack ==
    /\ epc = "escaped"
    /\ unescaped' = Unescape(escaped)
    /\ epc' = "read"
    /\ UNCHANGED <<text, escaped, mainVars, foldVars>>

NextEscape == Escape \/ ReadBack

SpecEscape == InitEscape /\ [][NextEscape]_vars

\* The escaped form of one character.
EscapedForm(c) ==
    IF c = BACKSLASH THEN <<BACKSLASH, BACKSLASH>>
    ELSE IF c = COMMA THEN <<BACKSLASH, COMMA>>
    ELSE IF c = SEMICOLON THEN <<BACKSLASH, SEMICOLON>>
    ELSE IF c = NL THEN <<BACKSLASH, LOWER_N>>
    ELSE <<c>>

\* C7: ical_escape(s) is s with each backslash, comma, semicolon and newline
\* replaced by its escaped form and nothing else changed, and unescaping
\* ical_escape(s) gives s back.
C7_EscapeRoundTrip ==
    /\ epc \in {"escaped", "read"} =>
          escaped = Flatten([i \in 1..Len(text) |-> EscapedForm(text[i])])
    /\ epc = "read" => unescaped = text

\* C7 witness: a text with a backslash followed by the letter n and a
\* newline has been escaped and read back.
C7_Witness ==
    /\ epc = "read"
    /\ Len(text) = 3
    /\ text[1] = BACKSLASH /\ text[2] = LOWER_N /\ text[3] = NL

====
